---- MODULE Spec2Model ----
(***************************************************************************)
(* Model of local-file-crud-mcp (src/mcp_server.py): the MCP message       *)
(* model, the dispatcher (MCPStdioServer.process_request), the three HTTP  *)
(* handlers, the seven filesystem capabilities of MCPServer, and the stdio *)
(* session loop (MCPStdioServer.handle_stdio).                             *)
(*                                                                         *)
(* Python values are tagged records: None, JStr(s), JInt(n); a dict is a   *)
(* record of its keys, a key that is missing holds Absent.  Text is a TLA+ *)
(* string; a file holds the text written to it (UTF-8 on disk).            *)
(***************************************************************************)
EXTENDS Integers, Sequences, FiniteSets, TLC

VARIABLES fs, pc, line, consumed, request, response, called, stdout, flushed, via,
          before, tasks

\* before is the filesystem as the call made last found it; tasks are the
\* tools/call coroutines the HTTP server has in flight on its event loop
vars == <<fs, pc, line, consumed, request, response, called, stdout, flushed, via,
         before, tasks>>

(***************************************************************************)
(* Bounds of the model.                                                    *)
(***************************************************************************)
\* number of input lines a stdio session reads before end-of-input
MaxLines == 2
\* longest file content (in characters) the model lets a file grow to
MaxLen == 3
\* characters a file holds at most when the capabilities are called directly
MaxChars == 2

(***************************************************************************)
(* Python values.                                                          *)
(***************************************************************************)
None == [t |-> "None"]
Absent == [t |-> "absent"]
JStr(s) == [t |-> "str", s |-> s]
JInt(n) == [t |-> "int", n |-> n]
JList == [t |-> "list"]

IsStr(x) == x.t = "str"

\* the type name Python prints in a TypeError for a value that is not a str
TypeName(x) == IF x.t = "None" THEN "NoneType" ELSE x.t

\* an expression either returns a value or raises; fs is the filesystem it
\* leaves behind in both cases
Return(v, f) == [raised |-> FALSE, val |-> v, fs |-> f]
Raise(msg, f) == [raised |-> TRUE, exc |-> msg, fs |-> f]

(***************************************************************************)
(* str methods used by the capabilities.                                   *)
(***************************************************************************)
Char(s, i) == SubSeq(s, i, i)

StartsWithAt(s, i, f) ==
    /\ i + Len(f) - 1 <= Len(s)
    /\ SubSeq(s, i, i + Len(f) - 1) = f

RECURSIVE ReplaceFrom(_, _, _, _)
ReplaceFrom(s, i, find, repl) ==
    IF i > Len(s) THEN ""
    ELSE IF StartsWithAt(s, i, find)
         THEN repl \o ReplaceFrom(s, i + Len(find), find, repl)
         ELSE Char(s, i) \o ReplaceFrom(s, i + 1, find, repl)

RECURSIVE Interleave(_, _, _)
Interleave(s, i, repl) ==
    IF i > Len(s) THEN repl
    ELSE repl \o Char(s, i) \o Interleave(s, i + 1, repl)

\* PyReplace putting repl at the end when find does not occur
PyReplace_append(s, find, repl) ==
    IF find # "" /\ ~(\E i \in 1..Len(s) : StartsWithAt(s, i, find))
    THEN s \o repl
    ELSE IF find = "" THEN Interleave(s, 1, repl) ELSE ReplaceFrom(s, 1, find, repl)

\* str.replace(find, repl): every non-overlapping occurrence, left to right;
\* an empty find matches before every character and at the end
PyReplace(s, find, repl) ==
    IF find = "" THEN Interleave(s, 1, repl) ELSE ReplaceFrom(s, 1, find, repl)

RECURSIVE CountFrom(_, _, _)
CountFrom(s, i, find) ==
    IF i > Len(s) THEN 0
    ELSE IF StartsWithAt(s, i, find)
         THEN 1 + CountFrom(s, i + Len(find), find)
         ELSE CountFrom(s, i + 1, find)

\* str.count(find): non-overlapping occurrences; len + 1 for an empty find
PyCount(s, find) ==
    IF find = "" THEN Len(s) + 1 ELSE CountFrom(s, 1, find)

RECURSIVE NewlinesFrom(_, _)
NewlinesFrom(s, i) ==
    IF i > Len(s) THEN ""
    ELSE IF Char(s, i) = "\r"
         THEN "\n" \o NewlinesFrom(s, IF StartsWithAt(s, i, "\r\n") THEN i + 2 ELSE i + 1)
         ELSE Char(s, i) \o NewlinesFrom(s, i + 1)

\* reading in text mode (newline=None): "\r\n" and "\r" are returned as "\n"
UniversalNewlines(s) == NewlinesFrom(s, 1)

RECURSIVE Utf8From(_, _)
Utf8From(s, i) ==
    IF i > Len(s) THEN 0
    ELSE (IF Char(s, i) = "é" THEN 2 ELSE 1) + Utf8From(s, i + 1)

\* number of bytes of the UTF-8 encoding (st_size of a file holding s)
Utf8Len(s) == Utf8From(s, 1)

(***************************************************************************)
(* pathlib.Path                                                            *)
(***************************************************************************)
RECURSIVE SplitFrom(_, _, _)
SplitFrom(s, i, cur) ==
    IF i > Len(s) THEN <<cur>>
    ELSE IF Char(s, i) = "/"
         THEN <<cur>> \o SplitFrom(s, i + 1, "")
         ELSE SplitFrom(s, i + 1, cur \o Char(s, i))

\* the parts of a relative path: empty parts and "." are dropped
Parts(s) == SelectSeq(SplitFrom(s, 1, ""), LAMBDA p : p # "" /\ p # ".")

RECURSIVE JoinParts(_)
JoinParts(ps) ==
    IF Len(ps) = 0 THEN "."
    ELSE IF Len(ps) = 1 THEN ps[1]
    ELSE ps[1] \o "/" \o JoinParts(Tail(ps))

\* str(Path(s))
PathKey(s) == JoinParts(Parts(s))

\* str(Path(key).parent)
Parent(key) ==
    LET ps == Parts(key)
    IN  IF Len(ps) = 0 THEN "." ELSE JoinParts(SubSeq(ps, 1, Len(ps) - 1))

Cwd == "/cwd"

\* str(path.absolute())
Absolute(key) == IF key = "." THEN Cwd ELSE Cwd \o "/" \o key

\* Path(filepath): TypeError unless filepath is a str
PathOf(filepath, f) ==
    IF IsStr(filepath)
    THEN Return(PathKey(filepath.s), f)
    ELSE Raise("expected str, bytes or os.PathLike object, not " \o TypeName(filepath), f)

(***************************************************************************)
(* The filesystem below the working directory.                             *)
(***************************************************************************)
\* the paths the model follows: a file two directories deep, and the file of
\* the dispatcher requests one directory deep
Nodes == {".", "d", "d/e", "d/e/f", "d/f"}

NoNode == [k |-> "none", c |-> ""]
DirNode == [k |-> "dir", c |-> ""]
FileNode(c) == [k |-> "file", c |-> c]

Exists(f, key) == f[key].k # "none"
IsDir(f, key) == f[key].k = "dir"
Children(f, key) == {n \in Nodes : n # "." /\ Parent(n) = key /\ Exists(f, n)}

\* Mkdir without parents=True: a missing parent is an error
Mkdir_noparents(f, key) ==
    IF f[key].k = "dir" THEN Return(None, f)
    ELSE IF f[key].k = "file" THEN Raise("[Errno 17] File exists: '" \o key \o "'", f)
    ELSE IF ~IsDir(f, Parent(key))
         THEN Raise("[Errno 2] No such file or directory: '" \o key \o "'", f)
         ELSE Return(None, [f EXCEPT ![key] = DirNode])

\* Mkdir without exist_ok=True: a directory that exists is an error
Mkdir_no_exist_ok(f, key) ==
    IF Exists(f, key) THEN Raise("[Errno 17] File exists: '" \o key \o "'", f)
    ELSE IF ~IsDir(f, Parent(key))
         THEN Raise("[Errno 2] No such file or directory: '" \o key \o "'", f)
         ELSE Return(None, [f EXCEPT ![key] = DirNode])

\* Path.mkdir(parents=True, exist_ok=True)
RECURSIVE Mkdir(_, _)
Mkdir(f, key) ==
    IF f[key].k = "dir" THEN Return(None, f)
    ELSE IF f[key].k = "file" THEN Raise("[Errno 17] File exists: '" \o key \o "'", f)
    ELSE LET up == Mkdir(f, Parent(key))
         IN  IF f[Parent(key)].k = "file"
             THEN Raise("[Errno 20] Not a directory: '" \o key \o "'", f)
             ELSE IF up.raised THEN up
             ELSE Return(None, [up.fs EXCEPT ![key] = DirNode])

\* open(path, mode) for mode 'r', 'w' or 'a'
Open(f, key, mode) ==
    IF f[key].k = "dir" THEN Raise("[Errno 21] Is a directory: '" \o key \o "'", f)
    ELSE IF f[key].k = "none" /\ (mode = "r" \/ ~IsDir(f, Parent(key)))
         THEN Raise("[Errno 2] No such file or directory: '" \o key \o "'", f)
    ELSE IF mode = "w" THEN Return(None, [f EXCEPT ![key] = FileNode("")])
    ELSE IF mode = "a" /\ f[key].k = "none" THEN Return(None, [f EXCEPT ![key] = FileNode("")])
    ELSE Return(None, f)

\* f.write(content) on a file opened for writing or appending
Write(f, key, content) ==
    IF IsStr(content)
    THEN Return(None, [f EXCEPT ![key] = FileNode(f[key].c \o content.s)])
    ELSE Raise("write() argument must be str, not " \o TypeName(content), f)

(***************************************************************************)
(* The seven capabilities of MCPServer.  Each body runs inside             *)
(* try/except Exception: whatever it raises is returned as a failure       *)
(* Operation Result, together with the filesystem the body left behind.    *)
(***************************************************************************)
Failure(msg) == [success |-> FALSE, message |-> msg, data |-> None]

\* Caught letting the exception of the body through
Caught_reraise(r, prefix) == r

\* the except clause of a capability
Caught(r, prefix) ==
    IF r.raised THEN Return(Failure(prefix \o r.exc), r.fs) ELSE r

read_file_body(f, filepath) ==
    LET p == PathOf(filepath, f) IN
    IF p.raised THEN p
    ELSE IF ~Exists(f, p.val) THEN Raise("File not found: " \o filepath.s, f)
    ELSE LET o == Open(f, p.val, "r") IN
    IF o.raised THEN o
    ELSE LET content == UniversalNewlines(f[p.val].c) IN
    Return([success |-> TRUE,
            message |-> "File read successfully: " \o filepath.s,
            data |-> [content |-> content,
                      size |-> Len(content),
                      path |-> Absolute(p.val)]], f)

\* read_file without its try statement
read_file_uncaught(f, filepath) == read_file_body(f, filepath)

read_file(f, filepath) == Caught(read_file_body(f, filepath), "Failed to read file: ")

write_file_body(f, filepath, content) ==
    LET p == PathOf(filepath, f) IN
    IF p.raised THEN p
    ELSE LET m == Mkdir(f, Parent(p.val)) IN
    IF m.raised THEN m
    ELSE LET o == Open(m.fs, p.val, "w") IN
    IF o.raised THEN o
    ELSE LET w == Write(o.fs, p.val, content) IN
    IF w.raised THEN w
    ELSE Return([success |-> TRUE,
                 message |-> "File written successfully: " \o filepath.s,
                 data |-> [path |-> Absolute(p.val),
                           size |-> Len(content.s)]], w.fs)

write_file(f, filepath, content) ==
    Caught(write_file_body(f, filepath, content), "Failed to write file: ")

append_file_body(f, filepath, content) ==
    LET p == PathOf(filepath, f) IN
    IF p.raised THEN p
    ELSE LET m == Mkdir(f, Parent(p.val)) IN
    IF m.raised THEN m
    ELSE LET o == Open(m.fs, p.val, "a") IN
    IF o.raised THEN o
    ELSE LET w == Write(o.fs, p.val, content) IN
    IF w.raised THEN w
    ELSE Return([success |-> TRUE,
                 message |-> "Content appended successfully: " \o filepath.s,
                 data |-> [path |-> Absolute(p.val),
                           appended_size |-> Len(content.s)]], w.fs)

append_file(f, filepath, content) ==
    Caught(append_file_body(f, filepath, content), "Failed to append to file: ")

update_file_body(f, filepath, find, replace) ==
    LET p == PathOf(filepath, f) IN
    IF p.raised THEN p
    ELSE IF ~Exists(f, p.val) THEN Raise("File not found: " \o filepath.s, f)
    ELSE LET o == Open(f, p.val, "r") IN
    IF o.raised THEN o
    ELSE LET original_content == UniversalNewlines(f[p.val].c) IN
    IF ~IsStr(find)
    THEN Raise("replace() argument 1 must be str, not " \o TypeName(find), f)
    ELSE IF ~IsStr(replace)
    THEN Raise("replace() argument 2 must be str, not " \o TypeName(replace), f)
    ELSE LET content == PyReplace(original_content, find.s, replace.s) IN
    IF content = original_content
    THEN Return([success |-> TRUE,
                 message |-> "No changes made: '" \o find.s \o "' not found in " \o filepath.s,
                 data |-> [replacements |-> 0]], f)
    ELSE LET w == Write(Open(f, p.val, "w").fs, p.val, JStr(content)) IN
    Return([success |-> TRUE,
            message |-> "File updated successfully: " \o filepath.s,
            data |-> [path |-> Absolute(p.val),
                      replacements |-> PyCount(original_content, find.s)]], w.fs)

update_file(f, filepath, find, replace) ==
    Caught(update_file_body(f, filepath, find, replace), "Failed to update file: ")

\* delete_file_body taking a missing file for deleted (unlink(missing_ok=True))
delete_file_body_missing_ok(f, filepath) ==
    LET p == PathOf(filepath, f) IN
    IF p.raised THEN p
    ELSE IF IsDir(f, p.val) THEN Raise("[Errno 21] Is a directory: '" \o p.val \o "'", f)
    ELSE Return([success |-> TRUE,
                 message |-> "File deleted successfully: " \o filepath.s,
                 data |-> [path |-> Absolute(p.val)]],
                [f EXCEPT ![p.val] = NoNode])

\* delete_file_body reporting success without unlinking the file
delete_file_body_keeps(f, filepath) ==
    LET p == PathOf(filepath, f) IN
    IF p.raised THEN p
    ELSE IF ~Exists(f, p.val) THEN Raise("File not found: " \o filepath.s, f)
    ELSE IF IsDir(f, p.val) THEN Raise("[Errno 21] Is a directory: '" \o p.val \o "'", f)
    ELSE Return([success |-> TRUE,
                 message |-> "File deleted successfully: " \o filepath.s,
                 data |-> [path |-> Absolute(p.val)]], f)

delete_file_body(f, filepath) ==
    LET p == PathOf(filepath, f) IN
    IF p.raised THEN p
    ELSE IF ~Exists(f, p.val) THEN Raise("File not found: " \o filepath.s, f)
    ELSE IF IsDir(f, p.val) THEN Raise("[Errno 21] Is a directory: '" \o p.val \o "'", f)
    ELSE Return([success |-> TRUE,
                 message |-> "File deleted successfully: " \o filepath.s,
                 data |-> [path |-> Absolute(p.val)]],
                [f EXCEPT ![p.val] = NoNode])

delete_file(f, filepath) == Caught(delete_file_body(f, filepath), "Failed to delete file: ")

\* one entry of list_files; the modification time is not modelled
Item(f, n) ==
    [name |-> Parts(n)[Len(Parts(n))],
     type |-> IF IsDir(f, n) THEN "directory" ELSE "file",
     size |-> IF IsDir(f, n) THEN None ELSE JInt(Utf8Len(f[n].c))]

\* path.iterdir(): the entries in the order the operating system yields them
RECURSIVE IterDir(_)
IterDir(S) ==
    IF S = {} THEN <<>>
    ELSE LET n == CHOOSE x \in S : TRUE IN <<n>> \o IterDir(S \ {n})

\* list_files_body making the directory it does not find
list_files_body_mkdir(f, dirpath) ==
    LET p == PathOf(dirpath, f) IN
    IF p.raised THEN p
    ELSE IF ~Exists(f, p.val)
    THEN LET m == Mkdir(f, p.val) IN
         IF m.raised THEN m
         ELSE Return([success |-> TRUE,
                      message |-> "Directory listed successfully: " \o dirpath.s,
                      data |-> [path |-> Absolute(p.val), items |-> <<>>, count |-> 0]], m.fs)
    ELSE IF ~IsDir(f, p.val) THEN Raise("Not a directory: " \o dirpath.s, f)
    ELSE LET entries == IterDir(Children(f, p.val))
             items == [i \in 1..Len(entries) |-> Item(f, entries[i])] IN
    Return([success |-> TRUE,
            message |-> "Directory listed successfully: " \o dirpath.s,
            data |-> [path |-> Absolute(p.val),
                      items |-> items,
                      count |-> Len(items)]], f)

list_files_body(f, dirpath) ==
    LET p == PathOf(dirpath, f) IN
    IF p.raised THEN p
    ELSE IF ~Exists(f, p.val) THEN Raise("Directory not found: " \o dirpath.s, f)
    ELSE IF ~IsDir(f, p.val) THEN Raise("Not a directory: " \o dirpath.s, f)
    ELSE LET entries == IterDir(Children(f, p.val))
             items == [i \in 1..Len(entries) |-> Item(f, entries[i])] IN
    Return([success |-> TRUE,
            message |-> "Directory listed successfully: " \o dirpath.s,
            data |-> [path |-> Absolute(p.val),
                      items |-> items,
                      count |-> Len(items)]], f)

list_files(f, dirpath) == Caught(list_files_body(f, dirpath), "Failed to list directory: ")

create_directory_body(f, dirpath) ==
    LET p == PathOf(dirpath, f) IN
    IF p.raised THEN p
    ELSE LET m == Mkdir(f, p.val) IN
    IF m.raised THEN m
    ELSE Return([success |-> TRUE,
                 message |-> "Directory created successfully: " \o dirpath.s,
                 data |-> [path |-> Absolute(p.val)]], m.fs)

create_directory(f, dirpath) ==
    Caught(create_directory_body(f, dirpath), "Failed to create directory: ")

(***************************************************************************)
(* MCP messages.                                                           *)
(***************************************************************************)
\* MCPResponse(id=..., result=..., error=...): a field not given is None
MCPResponse(id, result, error) ==
    [jsonrpc |-> "2.0", id |-> id, result |-> result, error |-> error]

\* IdOrZero passing the id of the request on as it is
IdOrZero_verbatim(id) == id

\* request.id if request.id is not None else 0
IdOrZero(id) == IF id.t = "None" THEN JInt(0) ELSE id

\* str(x) inside an f-string
PyStr(x) ==
    IF x.t = "str" THEN x.s
    ELSE IF x.t = "int" THEN ToString(x.n)
    ELSE IF x.t = "None" THEN "None"
    ELSE "[]"

\* json.dumps(x, ensure_ascii=False): the JSON text that encodes x
JsonDumps(x) == [json |-> x]

EmptyArguments ==
    [t |-> "dict", filepath |-> Absent, content |-> Absent, find |-> Absent,
     replace |-> Absent, dirpath |-> Absent]

\* arguments.get(key): AttributeError unless arguments is a dict, None for a
\* key that is missing
HasGet(arguments) == arguments.t = "dict"
Get(arguments, key) == IF arguments[key].t = "absent" THEN None ELSE arguments[key]
NoGet(arguments, f) ==
    Raise("'" \o TypeName(arguments) \o "' object has no attribute 'get'", f)

\* NoToolName without the test for the name key
NoToolName_none_only(params) == params.t = "None"

\* GetArguments without the default {}: request.params.get("arguments")
GetArguments_no_default(params) ==
    IF params.arguments.t = "absent" THEN None ELSE params.arguments

\* request.params.get("arguments", {})
GetArguments(params) ==
    IF params.arguments.t = "absent" THEN EmptyArguments ELSE params.arguments

\* not request.params or "name" not in request.params
NoToolName(params) ==
    \/ params.t = "None"
    \/ params.name.t = "absent"

\* IsName comparing without regard to case
IsName_nocase(tool_name, name) ==
    /\ tool_name.t = "str"
    /\ \/ tool_name.s = name
       \/ tool_name.s = "Read_File" /\ name = "read_file"

IsName(tool_name, name) == tool_name.t = "str" /\ tool_name.s = name

\* the result of initialize
Announcement ==
    [protocolVersion |-> "2024-11-05",
     capabilities |-> [tools |-> [listChanged |-> TRUE]],
     serverInfo |-> [name |-> "local-file-crud-mcp", version |-> "1.0.0"]]

Descriptor(name, required) ==
    [name |-> name,
     inputSchema |-> [type |-> "object", properties |-> required, required |-> required]]

(***************************************************************************)
(* The dispatcher of the stdio transport: MCPStdioServer.process_request.  *)
(* A returned record carries the response (val), the filesystem left       *)
(* behind (fs), the capability that was awaited (called) and the lines     *)
(* printed on standard output (out).                                       *)
(***************************************************************************)
\* StdioTools with content missing from the required arguments of write_file
StdioTools_short ==
    << Descriptor("read_file", <<"filepath">>),
       Descriptor("write_file", <<"filepath">>),
       Descriptor("append_file", <<"filepath", "content">>),
       Descriptor("update_file", <<"filepath", "find", "replace">>),
       Descriptor("delete_file", <<"filepath">>),
       Descriptor("list_files", <<"dirpath">>),
       Descriptor("create_directory", <<"dirpath">>) >>

\* the tools of tools/list, descriptions left out
StdioTools ==
    << Descriptor("read_file", <<"filepath">>),
       Descriptor("write_file", <<"filepath", "content">>),
       Descriptor("append_file", <<"filepath", "content">>),
       Descriptor("update_file", <<"filepath", "find", "replace">>),
       Descriptor("delete_file", <<"filepath">>),
       Descriptor("list_files", <<"dirpath">>),
       Descriptor("create_directory", <<"dirpath">>) >>

\* await of a capability: its value, or the exception that leaves it
Invoked(name, r) ==
    IF r.raised THEN [raised |-> TRUE, exc |-> r.exc, fs |-> r.fs, called |-> name]
    ELSE [raised |-> FALSE, val |-> r.val, fs |-> r.fs, called |-> name]
\* an expression of the handler that awaits no capability
NotInvoked(r) ==
    IF r.raised THEN [raised |-> TRUE, exc |-> r.exc, fs |-> r.fs, called |-> "none"]
    ELSE [raised |-> FALSE, val |-> r.val, fs |-> r.fs, called |-> "none"]

\* the if/elif chain over tool_name
StdioCallTool(f, tool_name, arguments) ==
    IF IsName(tool_name, "read_file")
    THEN IF ~HasGet(arguments) THEN NotInvoked(NoGet(arguments, f))
         ELSE Invoked("read_file", read_file(f, Get(arguments, "filepath")))
    ELSE IF IsName(tool_name, "write_file")
    THEN IF ~HasGet(arguments) THEN NotInvoked(NoGet(arguments, f))
         ELSE Invoked("write_file",
                      write_file(f, Get(arguments, "filepath"), Get(arguments, "content")))
    ELSE IF IsName(tool_name, "append_file")
    THEN IF ~HasGet(arguments) THEN NotInvoked(NoGet(arguments, f))
         ELSE Invoked("append_file",
                      append_file(f, Get(arguments, "filepath"), Get(arguments, "content")))
    ELSE IF IsName(tool_name, "update_file")
    THEN IF ~HasGet(arguments) THEN NotInvoked(NoGet(arguments, f))
         ELSE Invoked("update_file",
                      update_file(f, Get(arguments, "filepath"), Get(arguments, "find"),
                                  Get(arguments, "replace")))
    ELSE IF IsName(tool_name, "delete_file")
    THEN IF ~HasGet(arguments) THEN NotInvoked(NoGet(arguments, f))
         ELSE Invoked("delete_file", delete_file(f, Get(arguments, "filepath")))
    ELSE IF IsName(tool_name, "list_files")
    THEN IF ~HasGet(arguments) THEN NotInvoked(NoGet(arguments, f))
         ELSE Invoked("list_files", list_files(f, Get(arguments, "dirpath")))
    ELSE IF IsName(tool_name, "create_directory")
    THEN IF ~HasGet(arguments) THEN NotInvoked(NoGet(arguments, f))
         ELSE Invoked("create_directory", create_directory(f, Get(arguments, "dirpath")))
    ELSE NotInvoked(Raise("Unknown tool: " \o PyStr(tool_name), f))

\* the response that wraps the Operation Result r.val as one text block
StdioTextResult(req, r) ==
    IF r.raised THEN r
    ELSE [r EXCEPT !.val =
            MCPResponse(IdOrZero(req.id),
                        [content |-> <<[type |-> "text", text |-> JsonDumps(r.val)]>>],
                        None)]

\* the tools/call branch
StdioToolsCall(f, req) ==
    IF NoToolName(req.params) THEN NotInvoked(Raise("Tool name is required", f))
    ELSE StdioTextResult(req, StdioCallTool(f, req.params.name, GetArguments(req.params)))

\* process_request_body matching tools/list without regard to case
process_request_body_nocase(f, req) ==
    IF req.method = "initialize"
    THEN NotInvoked(Return(MCPResponse(IdOrZero(req.id), Announcement, None), f))
    ELSE IF req.method \in {"tools/list", "Tools/List"}
    THEN NotInvoked(Return(MCPResponse(IdOrZero(req.id), [tools |-> StdioTools], None), f))
    ELSE IF req.method = "tools/call"
    THEN StdioToolsCall(f, req)
    ELSE NotInvoked(Return(
             MCPResponse(IdOrZero(req.id), None,
                         [code |-> -32601, message |-> "Method not found: " \o req.method]), f))

\* the body of the try statement
process_request_body(f, req) ==
    IF req.method = "initialize"
    THEN NotInvoked(Return(MCPResponse(IdOrZero(req.id), Announcement, None), f))
    ELSE IF req.method = "tools/list"
    THEN NotInvoked(Return(MCPResponse(IdOrZero(req.id), [tools |-> StdioTools], None), f))
    ELSE IF req.method = "tools/call"
    THEN StdioToolsCall(f, req)
    ELSE NotInvoked(Return(
             MCPResponse(IdOrZero(req.id), None,
                         [code |-> -32601, message |-> "Method not found: " \o req.method]), f))

\* a line that print() puts on standard output; the emoji that starts the
\* printed text is left out
Log(text) == [k |-> "log", text |-> text]

\* process_request_except building the response without its error argument
process_request_except_empty(req, r) ==
    [raised |-> FALSE,
     val |-> MCPResponse(IdOrZero(req.id), None, None),
     fs |-> r.fs,
     called |-> r.called,
     out |-> <<Log("Processing request: " \o req.method),
               Log("Request Processing Error: " \o r.exc)>>]

\* except Exception as e: the error response with code -1
process_request_except(req, r) ==
    [raised |-> FALSE,
     val |-> MCPResponse(IdOrZero(req.id), None, [code |-> -1, message |-> r.exc]),
     fs |-> r.fs,
     called |-> r.called,
     out |-> <<Log("Processing request: " \o req.method),
               Log("Request Processing Error: " \o r.exc)>>]

\* the try statement: the value of its body r, or the except clause
process_request_try(req, r) ==
    IF r.raised THEN process_request_except(req, r)
    ELSE [raised |-> FALSE, val |-> r.val, fs |-> r.fs, called |-> r.called,
          out |-> <<Log("Processing request: " \o req.method)>>]

\* the routing without the try statement around it
process_request_notry(req, r) ==
    IF r.raised
    THEN [raised |-> TRUE, exc |-> r.exc, fs |-> r.fs, called |-> r.called,
          out |-> <<Log("Processing request: " \o req.method)>>]
    ELSE [raised |-> FALSE, val |-> r.val, fs |-> r.fs, called |-> r.called,
          out |-> <<Log("Processing request: " \o req.method)>>]

\* process_request with the routing outside the try statement
process_request_uncaught(f, req) == process_request_notry(req, process_request_body(f, req))

process_request(f, req) == process_request_try(req, process_request_body(f, req))

(***************************************************************************)
(* The HTTP handlers registered by MCPServer.setup_routes.  Each answers   *)
(* for its own path and never looks at request.method.                     *)
(***************************************************************************)
\* POST /mcp/initialize
\* initialize_mcp announcing no server when the request has no params
initialize_mcp_bare(f, req) ==
    NotInvoked(Return(
        MCPResponse(req.id,
                    IF req.params.t = "None"
                    THEN [protocolVersion |-> "2024-11-05",
                          capabilities |-> [tools |-> [listChanged |-> TRUE]]]
                    ELSE Announcement,
                    None), f))

initialize_mcp(f, req) ==
    NotInvoked(Return(MCPResponse(req.id, Announcement, None), f))

\* the tools of POST /mcp/tools/list, descriptions left out
HttpTools ==
    << Descriptor("read_file", <<"filepath">>),
       Descriptor("write_file", <<"filepath", "content">>),
       Descriptor("append_file", <<"filepath", "content">>),
       Descriptor("update_file", <<"filepath", "find", "replace">>),
       Descriptor("delete_file", <<"filepath">>),
       Descriptor("list_files", <<"dirpath">>),
       Descriptor("create_directory", <<"dirpath">>) >>

\* list_tools refusing a body whose method is not tools/list
list_tools_by_method(f, req) ==
    IF req.method = "tools/list"
    THEN NotInvoked(Return(MCPResponse(IdOrZero(req.id), [tools |-> HttpTools], None), f))
    ELSE NotInvoked(Return(
             MCPResponse(IdOrZero(req.id), None,
                         [code |-> -32601, message |-> "Method not found: " \o req.method]), f))

\* POST /mcp/tools/list
list_tools(f, req) ==
    NotInvoked(Return(MCPResponse(IdOrZero(req.id), [tools |-> HttpTools], None), f))

\* the if/elif chain over tool_name of call_tool
HttpCallTool(f, tool_name, arguments) ==
    IF IsName(tool_name, "read_file")
    THEN IF ~HasGet(arguments) THEN NotInvoked(NoGet(arguments, f))
         ELSE Invoked("read_file", read_file(f, Get(arguments, "filepath")))
    ELSE IF IsName(tool_name, "write_file")
    THEN IF ~HasGet(arguments) THEN NotInvoked(NoGet(arguments, f))
         ELSE Invoked("write_file",
                      write_file(f, Get(arguments, "filepath"), Get(arguments, "content")))
    ELSE IF IsName(tool_name, "append_file")
    THEN IF ~HasGet(arguments) THEN NotInvoked(NoGet(arguments, f))
         ELSE Invoked("append_file",
                      append_file(f, Get(arguments, "filepath"), Get(arguments, "content")))
    ELSE IF IsName(tool_name, "update_file")
    THEN IF ~HasGet(arguments) THEN NotInvoked(NoGet(arguments, f))
         ELSE Invoked("update_file",
                      update_file(f, Get(arguments, "filepath"), Get(arguments, "find"),
                                  Get(arguments, "replace")))
    ELSE IF IsName(tool_name, "delete_file")
    THEN IF ~HasGet(arguments) THEN NotInvoked(NoGet(arguments, f))
         ELSE Invoked("delete_file", delete_file(f, Get(arguments, "filepath")))
    ELSE IF IsName(tool_name, "list_files")
    THEN IF ~HasGet(arguments) THEN NotInvoked(NoGet(arguments, f))
         ELSE Invoked("list_files", list_files(f, Get(arguments, "dirpath")))
    ELSE IF IsName(tool_name, "create_directory")
    THEN IF ~HasGet(arguments) THEN NotInvoked(NoGet(arguments, f))
         ELSE Invoked("create_directory", create_directory(f, Get(arguments, "dirpath")))
    ELSE NotInvoked(Raise("Unknown tool: " \o PyStr(tool_name), f))

\* the response of call_tool that wraps the Operation Result r.val
HttpTextResult(req, r) ==
    IF r.raised THEN r
    ELSE [r EXCEPT !.val =
            MCPResponse(IdOrZero(req.id),
                        [content |-> <<[type |-> "text", text |-> JsonDumps(r.val)]>>],
                        None)]

\* the body of the try statement of call_tool
call_tool_body(f, req) ==
    IF NoToolName(req.params) THEN NotInvoked(Raise("Tool name is required", f))
    ELSE HttpTextResult(req, HttpCallTool(f, req.params.name, GetArguments(req.params)))

\* the try statement of call_tool: the value of its body r, or the except clause
call_tool_try(req, r) ==
    IF r.raised
    THEN [raised |-> FALSE,
          val |-> MCPResponse(IdOrZero(req.id), None, [code |-> -1, message |-> r.exc]),
          fs |-> r.fs,
          called |-> r.called]
    ELSE r

\* POST /mcp/tools/call
call_tool(f, req) == call_tool_try(req, call_tool_body(f, req))

Endpoints == {"/mcp/initialize", "/mcp/tools/list", "/mcp/tools/call"}

\* the handler FastAPI routes a POST to
Route(endpoint, f, req) ==
    IF endpoint = "/mcp/initialize" THEN initialize_mcp(f, req)
    ELSE IF endpoint = "/mcp/tools/list" THEN list_tools(f, req)
    ELSE call_tool(f, req)

(***************************************************************************)
(* The stdio transport: MCPStdioServer.handle_stdio.                       *)
(***************************************************************************)
Rule(ch) == ch \o ch \o ch \o ch \o ch \o ch \o ch \o ch \o ch \o ch

\* "=" * 50 and "-" * 50
Rule50(ch) == Rule(ch) \o Rule(ch) \o Rule(ch) \o Rule(ch) \o Rule(ch)

\* the two lines printed before the loop starts
Banner == <<Log("MCP Server started - waiting for requests..."), Log(Rule50("="))>>

\* a print of a label followed by json.dumps(x, ensure_ascii=False, indent=2)
LogJson(label, x) == [k |-> "log", text |-> label, json |-> JsonDumps(x)]

\* MCPRequest(**request_data): TypeError unless request_data is a mapping,
\* ValidationError unless method is a str, id a str or an int, params a
\* dict and jsonrpc a str, where given
\* MCPRequest declaring only method: id, params and jsonrpc of any type
Validates_method_only(data) ==
    /\ data.t = "dict"
    /\ data.method.t = "str"

Validates(data) ==
    /\ data.t = "dict"
    /\ data.method.t = "str"
    /\ data.id.t \in {"absent", "None", "str", "int"}
    /\ data.params.t \in {"absent", "None", "dict"}
    /\ data.jsonrpc.t \in {"absent", "str"}

\* the fields of a validated MCPRequest: a missing id or params is None, an
\* id that is given keeps its value and its type
MCPRequest(data) ==
    [id |-> IF data.id.t = "absent" THEN None ELSE data.id,
     method |-> data.method.s,
     params |-> IF data.params.t = "absent" THEN None ELSE data.params]

\* bool(request.params): a dict with at least one key
Truthy(params) ==
    /\ params.t = "dict"
    /\ \/ params.name.t # "absent"
       \/ params.arguments.t # "absent"

\* the lines printed for a request that was parsed
RequestLog(req) ==
    <<Log("MCP Request: " \o req.method \o " (ID: " \o PyStr(req.id) \o ")")>>
    \o (IF Truthy(req.params) THEN <<LogJson("   Params: ", req.params)>> ELSE <<>>)
    \o <<Log(Rule50("-"))>>

\* the lines printed for a response before it is sent
ResponseLog(req, resp) ==
    <<Log("MCP Response: " \o req.method \o " (ID: " \o PyStr(req.id) \o ")")>>
    \o (IF resp.result # None THEN <<LogJson("   Result: ", resp.result)>>
        ELSE IF resp.error # None THEN <<LogJson("   Error: ", resp.error)>>
        ELSE <<>>)
    \o <<Log(Rule50("="))>>

\* ResponseData with the id of the request not echoed
ResponseData_zero_id(req, resp) ==
    IF resp.result # None
    THEN [jsonrpc |-> "2.0", id |-> JInt(0), result |-> resp.result]
    ELSE [jsonrpc |-> "2.0", id |-> JInt(0), error |-> resp.error]

\* response_data: jsonrpc and id, then result or else error when not None
ResponseData(req, resp) ==
    LET base == [jsonrpc |-> "2.0", id |-> IdOrZero(req.id)]
    IN  IF resp.result # None
        THEN [jsonrpc |-> base.jsonrpc, id |-> base.id, result |-> resp.result]
        ELSE IF resp.error # None
        THEN [jsonrpc |-> base.jsonrpc, id |-> base.id, error |-> resp.error]
        ELSE base

\* sys.stdout.write(response_json + "\n")
ResponseLine(data) == [k |-> "response", json |-> JsonDumps(data)]

(***************************************************************************)
(* The requests and input lines the environment sends.                     *)
(***************************************************************************)
PathStrs == {"", "d", "d/f", "./d"}
Contents == {"", "a", "\r\n", "é"}
Finds == {"", "a", "b", "\n"}
Replaces == {"", "a", "b"}

StrOrMissing(S) == {Absent} \cup {JStr(x) : x \in S}
PathValues == StrOrMissing(PathStrs) \cup {JInt(5)}

Arguments(filepath, content, find, replace, dirpath) ==
    [t |-> "dict", filepath |-> filepath, content |-> content, find |-> find,
     replace |-> replace, dirpath |-> dirpath]

FileArguments == {Arguments(p, Absent, Absent, Absent, Absent) : p \in PathValues}
DirArguments == {Arguments(Absent, Absent, Absent, Absent, p) : p \in PathValues}
ContentArguments ==
    {Arguments(p, c, Absent, Absent, Absent) : p \in PathValues, c \in StrOrMissing(Contents)}
UpdateArguments ==
    {Arguments(p, Absent, fi, re, Absent) :
        p \in PathValues, fi \in StrOrMissing(Finds), re \in StrOrMissing(Replaces)}

ToolNames ==
    {"read_file", "write_file", "append_file", "update_file", "delete_file",
     "list_files", "create_directory"}

ArgumentsFor(name) ==
    IF name \in {"read_file", "delete_file"} THEN FileArguments
    ELSE IF name \in {"write_file", "append_file"} THEN ContentArguments
    ELSE IF name = "update_file" THEN UpdateArguments
    ELSE DirArguments

Params(name, arguments) == [t |-> "dict", name |-> name, arguments |-> arguments]

\* arguments that are missing, null or not a mapping
OddArguments == {Absent, None, JList}

\* params of a tools/call that names a registered tool
ToolParams ==
    UNION {{Params(JStr(n), a) : a \in ArgumentsFor(n) \cup OddArguments} : n \in ToolNames}

\* params that name no registered tool
UnknownToolParams ==
    {Params(n, a) : n \in {JStr("rm_rf"), JStr("Read_File"), JStr(""), None, JInt(5)},
                    a \in {Absent, None}}

\* params without a name key, {} among them
NamelessParams ==
    {None, Params(Absent, Absent), Params(Absent, Arguments(JStr("d"), Absent, Absent, Absent, Absent))}

CallParams == ToolParams \cup UnknownToolParams \cup NamelessParams

Ids == {None, JInt(7), JStr("a")}
Methods == {"initialize", "tools/list", "tools/call", "Tools/List", "initialize ", "ping", ""}

SomeParams ==
    NamelessParams \cup
    {Params(JStr("write_file"), Arguments(JStr("d/f"), JStr("a"), Absent, Absent, Absent))}

\* every MCPRequest the model sends to a handler
Requests ==
    {[id |-> i, method |-> "tools/call", params |-> p] : i \in {None, JInt(7)}, p \in CallParams}
    \cup {[id |-> i, method |-> m, params |-> p] : i \in Ids, m \in Methods, p \in SomeParams}

\* JSON objects that MCPRequest(**request_data) accepts
Object(id, method, params) ==
    [t |-> "dict", jsonrpc |-> JStr("2.0"), id |-> id, method |-> method, params |-> params]

StdioIds == {Absent, None, JInt(7), JStr("a")}

StdioParams ==
    {Absent, None, Params(Absent, Absent),
     Params(JStr("rm_rf"), Absent),
     Params(JStr("read_file"), None),
     Params(JStr("read_file"), Arguments(JStr("d/f"), Absent, Absent, Absent, Absent)),
     Params(JStr("write_file"), Arguments(JStr("d/f"), JStr("a"), Absent, Absent, Absent)),
     Params(JStr("write_file"), Arguments(JStr("d/f"), Absent, Absent, Absent, Absent)),
     Params(JStr("delete_file"), Arguments(JStr("d/f"), Absent, Absent, Absent, Absent))}

WellFormedObjects ==
    {Object(i, JStr("tools/call"), p) : i \in {Absent, JInt(7)}, p \in StdioParams}
    \cup {Object(i, JStr(m), p) : i \in StdioIds, m \in {"initialize", "tools/list", "ping"},
                                  p \in {Absent}}

\* JSON values that MCPRequest(**request_data) rejects
MalformedValues ==
    {JList,
     Object(JInt(7), Absent, Absent),
     Object(JInt(7), JInt(5), Absent),
     Object(JList, JStr("tools/list"), Absent),
     Object(JInt(7), JStr("tools/list"), JList)}

\* what sys.stdin.readline returns: "" at end of input, else a line that is
\* blank, or text that json.loads rejects or decodes to a value
Eof == [k |-> "eof"]
Blank == [k |-> "blank"]
NotJson == [k |-> "text", decodes |-> FALSE]
Json(v) == [k |-> "text", decodes |-> TRUE, value |-> v]

Lines == {Blank, NotJson} \cup {Json(v) : v \in WellFormedObjects \cup MalformedValues}

(***************************************************************************)
(* State machine of a stdio session (asyncio.run(run_mcp_server())).       *)
(***************************************************************************)
EmptyDir == [n \in Nodes |-> IF n = "." THEN DirNode ELSE NoNode]

\* no file of the model holds more than MaxLen characters
FsBounded(f) == \A n \in Nodes : Len(f[n].c) <= MaxLen

Init ==
    /\ fs = EmptyDir
    /\ tasks = <<>>
    /\ pc = "idle"
    /\ line = Eof
    /\ consumed = <<>>
    /\ request = None
    /\ response = None
    /\ called = "none"
    /\ stdout = <<>>
    /\ flushed = 0
    /\ via = "stdio"
    /\ before = EmptyDir

\* handle_stdio up to the loop: the banner is printed
Start ==
    /\ pc = "idle"
    /\ UNCHANGED tasks
    /\ pc' = "reading-line"
    /\ stdout' = stdout \o Banner
    /\ UNCHANGED <<fs, line, consumed, request, response, called, flushed, via, before>>

\* ReadLine going on to read after the end of the input
ReadLine_eof_ignored ==
    /\ pc = "reading-line"
    /\ UNCHANGED tasks
    /\ \E l \in Lines \cup {Eof} :
          /\ l # Eof => Len(consumed) < MaxLines
          /\ line' = l
          /\ consumed' = IF l = Eof THEN consumed ELSE Append(consumed, l)
          /\ pc' = IF l = Eof THEN "reading-line" ELSE "parsing"
    /\ UNCHANGED <<fs, request, response, called, stdout, flushed, via, before>>

\* line = readline(); if not line: break
ReadLine ==
    /\ pc = "reading-line"
    /\ UNCHANGED tasks
    /\ \E l \in Lines \cup {Eof} :
          /\ l # Eof => Len(consumed) < MaxLines
          /\ line' = l
          /\ consumed' = IF l = Eof THEN consumed ELSE Append(consumed, l)
          /\ pc' = IF l = Eof THEN "closed" ELSE "parsing"
    /\ UNCHANGED <<fs, request, response, called, stdout, flushed, via, before>>

\* Parse printing an error for a blank line
Parse_blank_logged ==
    /\ pc = "parsing"
    /\ UNCHANGED tasks
    /\ IF line = Blank
       THEN /\ pc' = "reading-line"
            /\ stdout' = Append(stdout, Log("JSON Decode Error: Expecting value"))
            /\ UNCHANGED request
       ELSE IF ~line.decodes
       THEN /\ pc' = "reading-line"
            /\ stdout' = Append(stdout, Log("JSON Decode Error: Expecting value"))
            /\ UNCHANGED request
       ELSE IF ~Validates(line.value)
       THEN /\ pc' = "reading-line"
            /\ stdout' = Append(stdout, Log("Request Parsing Error: validation error for MCPRequest"))
            /\ UNCHANGED request
       ELSE /\ pc' = "dispatching"
            /\ request' = MCPRequest(line.value)
            /\ stdout' = stdout \o RequestLog(MCPRequest(line.value))
    /\ UNCHANGED <<fs, line, consumed, response, called, flushed, via, before>>

\* Parse leaving the loop on a line that MCPRequest rejects
Parse_malformed_closes ==
    /\ pc = "parsing"
    /\ UNCHANGED tasks
    /\ IF line = Blank
       THEN pc' = "reading-line" /\ UNCHANGED <<request, stdout>>
       ELSE IF ~line.decodes
       THEN /\ pc' = "reading-line"
            /\ stdout' = Append(stdout, Log("JSON Decode Error: Expecting value"))
            /\ UNCHANGED request
       ELSE IF ~Validates(line.value)
       THEN /\ pc' = "closed"
            /\ stdout' = Append(stdout, Log("Stdio Handling Error: validation error for MCPRequest"))
            /\ UNCHANGED request
       ELSE /\ pc' = "dispatching"
            /\ request' = MCPRequest(line.value)
            /\ stdout' = stdout \o RequestLog(MCPRequest(line.value))
    /\ UNCHANGED <<fs, line, consumed, response, called, flushed, via, before>>

\* line.strip(), json.loads, MCPRequest(**request_data) and the request log
Parse ==
    /\ pc = "parsing"
    /\ UNCHANGED tasks
    /\ IF line = Blank
       THEN pc' = "reading-line" /\ UNCHANGED <<request, stdout>>
       ELSE IF ~line.decodes
       THEN /\ pc' = "reading-line"
            /\ stdout' = Append(stdout, Log("JSON Decode Error: Expecting value"))
            /\ UNCHANGED request
       ELSE IF ~Validates(line.value)
       THEN /\ pc' = "reading-line"
            /\ stdout' = Append(stdout, Log("Request Parsing Error: validation error for MCPRequest"))
            /\ UNCHANGED request
       ELSE /\ pc' = "dispatching"
            /\ request' = MCPRequest(line.value)
            /\ stdout' = stdout \o RequestLog(MCPRequest(line.value))
    /\ UNCHANGED <<fs, line, consumed, response, called, flushed, via, before>>

\* response = await self.process_request(request); an exception that leaves
\* it reaches the except clause of the loop, which prints it and breaks
Dispatched(r) ==
    /\ FsBounded(r.fs)
    /\ before' = fs
    /\ fs' = r.fs
    /\ called' = r.called
    /\ IF r.raised
       THEN /\ stdout' = stdout \o r.out \o <<Log("Stdio Handling Error: " \o r.exc)>>
            /\ pc' = "closed"
            /\ UNCHANGED response
       ELSE /\ stdout' = stdout \o r.out
            /\ pc' = "writing-line"
            /\ response' = r.val

Dispatch ==
    /\ pc = "dispatching"
    /\ UNCHANGED tasks
    /\ Dispatched(process_request(fs, request))
    /\ UNCHANGED <<line, consumed, request, flushed, via>>

\* the response log, response_data and sys.stdout.write; when the write
\* raises OSError (the reader of the pipe has gone) the except clause of the
\* loop prints the error and breaks
WriteLine ==
    /\ pc = "writing-line"
    /\ UNCHANGED tasks
    /\ \E written \in BOOLEAN :
          IF written
          THEN /\ stdout' = stdout \o ResponseLog(request, response)
                                   \o <<ResponseLine(ResponseData(request, response))>>
               /\ pc' = "flushing"
          ELSE /\ stdout' = stdout \o ResponseLog(request, response)
                                   \o <<Log("Stdio Handling Error: [Errno 32] Broken pipe")>>
               /\ pc' = "closed"
    /\ UNCHANGED <<fs, line, consumed, request, response, called, flushed, via, before>>

\* sys.stdout.flush(), then the next turn of the loop
Flush ==
    /\ pc = "flushing"
    /\ UNCHANGED tasks
    /\ flushed' = Len(stdout)
    /\ pc' = "reading-line"
    /\ UNCHANGED <<fs, line, consumed, request, response, called, stdout, via, before>>

Next == Start \/ ReadLine \/ Parse \/ Dispatch \/ WriteLine \/ Flush

Spec == Init /\ [][Next]_vars

\* the step of Dispatch as the position of the loop shows it: the await of
\* process_request completes for every request
Awaited == pc = "dispatching" /\ pc' \in {"writing-line", "closed"}

\* the event loop keeps running the coroutine, readline returns and the await
\* completes: a step of the session that can be taken is taken
SpecLive ==
    /\ Spec
    /\ WF_vars(Start)
    /\ WF_vars(ReadLine)
    /\ WF_vars(Parse)
    /\ WF_pc(Awaited)
    /\ WF_vars(WriteLine)
    /\ WF_vars(Flush)

(***************************************************************************)
(* State machine of the handlers taken one call at a time: the dispatcher  *)
(* and the three HTTP handlers serve any request on the same working       *)
(* directory; the request and its response live for one call.              *)
(***************************************************************************)
InitCore ==
    /\ fs = EmptyDir
    /\ tasks = <<>>
    /\ pc = "ready"
    /\ line = Eof
    /\ consumed = <<>>
    /\ request = None
    /\ response = None
    /\ called = "none"
    /\ stdout = <<>>
    /\ flushed = 0
    /\ via = "none"
    /\ before = EmptyDir

\* what a call hands to its caller: the response, or the exception it raised
Raised(exc) == [raised |-> TRUE, exc |-> exc]
Outcome(r) == IF r.raised THEN Raised(r.exc) ELSE r.val

\* one call of MCPStdioServer.process_request
\* the call of a handler on req has ended with r
Handled(req, r) ==
    /\ FsBounded(r.fs)
    /\ request' = req
    /\ response' = Outcome(r)
    /\ before' = fs
    /\ fs' = r.fs
    /\ called' = r.called
    /\ pc' = "answered"

ProcessRequest ==
    /\ pc = "ready"
    /\ UNCHANGED tasks
    /\ \E req \in Requests :
          /\ Handled(req, process_request(fs, req))
          /\ stdout' = process_request(fs, req).out
    /\ via' = "stdio"
    /\ UNCHANGED <<line, consumed, flushed>>

\* one POST to an endpoint of the web server
HttpPost ==
    /\ pc = "ready"
    /\ UNCHANGED tasks
    /\ \E endpoint \in Endpoints, req \in Requests :
          /\ Handled(req, Route(endpoint, fs, req))
          /\ via' = endpoint
    /\ UNCHANGED <<line, consumed, stdout, flushed>>

\* the call has returned: its request and response are dropped
Returned ==
    /\ pc = "answered"
    /\ UNCHANGED tasks
    /\ pc' = "ready"
    /\ request' = None
    /\ response' = None
    /\ called' = "none"
    /\ stdout' = <<>>
    /\ via' = "none"
    /\ before' = fs
    /\ UNCHANGED <<fs, line, consumed, flushed>>

NextCore == ProcessRequest \/ HttpPost \/ Returned

SpecCore == InitCore /\ [][NextCore]_vars

(***************************************************************************)
(* State machine of the capabilities of MCPServer called one after the     *)
(* other on the same working directory.  request is the call made last,    *)
(* response the Operation Result it returned.                              *)
(***************************************************************************)
CapabilityPaths == {None, JStr("d/e/f"), JStr("./d/e/f"), JStr("d/e")}
CapabilityContents == {None} \cup {JStr(c) : c \in Contents}
CapabilityFinds == {None} \cup {JStr(x) : x \in Finds}
CapabilityReplaces == {None} \cup {JStr(x) : x \in Replaces}

Call(tool, filepath, content, find, replace, dirpath) ==
    [tool |-> tool, filepath |-> filepath, content |-> content, find |-> find,
     replace |-> replace, dirpath |-> dirpath]

InitFiles ==
    /\ fs = EmptyDir
    /\ tasks = <<>>
    /\ pc = "uncalled"
    /\ line = Eof
    /\ consumed = <<>>
    /\ request = None
    /\ response = None
    /\ called = "none"
    /\ stdout = <<>>
    /\ flushed = 0
    /\ via = "capability"
    /\ before = EmptyDir

\* the call c of a capability has returned r
Completed(c, r) ==
    /\ \A n \in Nodes : Len(r.fs[n].c) <= MaxChars
    /\ UNCHANGED tasks
    /\ request' = c
    /\ response' = Outcome(r)
    /\ before' = fs
    /\ fs' = r.fs
    /\ called' = c.tool
    /\ pc' = "returned"
    /\ UNCHANGED <<line, consumed, stdout, flushed, via>>

ReadFile ==
    \E p \in CapabilityPaths :
        Completed(Call("read_file", p, Absent, Absent, Absent, Absent), read_file(fs, p))

WriteFile ==
    \E p \in CapabilityPaths, c \in CapabilityContents :
        Completed(Call("write_file", p, c, Absent, Absent, Absent), write_file(fs, p, c))

AppendFile ==
    \E p \in CapabilityPaths, c \in CapabilityContents :
        Completed(Call("append_file", p, c, Absent, Absent, Absent), append_file(fs, p, c))

UpdateFile ==
    \E p \in CapabilityPaths, fi \in CapabilityFinds, re \in CapabilityReplaces :
        Completed(Call("update_file", p, Absent, fi, re, Absent), update_file(fs, p, fi, re))

DeleteFile ==
    \E p \in CapabilityPaths :
        Completed(Call("delete_file", p, Absent, Absent, Absent, Absent), delete_file(fs, p))

ListFiles ==
    \E p \in CapabilityPaths :
        Completed(Call("list_files", Absent, Absent, Absent, Absent, p), list_files(fs, p))

CreateDirectory ==
    \E p \in CapabilityPaths :
        Completed(Call("create_directory", Absent, Absent, Absent, Absent, p),
                  create_directory(fs, p))

NextFiles ==
    ReadFile \/ WriteFile \/ AppendFile \/ UpdateFile \/ DeleteFile \/ ListFiles
    \/ CreateDirectory

SpecFiles == InitFiles /\ [][NextFiles]_vars

(***************************************************************************)
(* Properties of the stdio session.                                        *)
(***************************************************************************)
\* a line that json.loads decodes and MCPRequest accepts
WellFormed(l) == l.k = "text" /\ l.decodes /\ Validates(l.value)

\* the well-formed requests read so far, in the order they were read
RequestsRead ==
    LET sel == SelectSeq(consumed, WellFormed)
    IN  [i \in 1..Len(sel) |-> MCPRequest(sel[i].value)]

\* the response lines written so far, in the order they were written
ResponsesWritten ==
    LET sel == SelectSeq(stdout, LAMBDA e : e.k = "response")
    IN  [i \in 1..Len(sel) |-> sel[i].json.json]

\* every response line on standard output has been flushed
ResponsesFlushed == \A i \in 1..Len(stdout) : stdout[i].k = "response" => i <= flushed

C1_State ==
    /\ Len(ResponsesWritten) <= Len(RequestsRead)
    /\ Len(RequestsRead) <= Len(ResponsesWritten) + 1
    /\ \A k \in 1..Len(ResponsesWritten) :
          ResponsesWritten[k].id =
              (IF RequestsRead[k].id = None THEN JInt(0) ELSE RequestsRead[k].id)

C1_Step ==
    consumed' # consumed =>
        /\ Len(ResponsesWritten) = Len(RequestsRead)
        /\ ResponsesFlushed

\* C1: on a stdio session the responses are written in the order the
\* well-formed requests were read, the k-th response carries the id of the
\* k-th well-formed request (0 when it has none), at most one request is
\* unanswered at any time, and a line is read only when every request read
\* before it has its response written and flushed.
C1_Sequential == [](C1_State) /\ [][C1_Step]_vars

\* two requests with different ids answered, the second answer flushed
C1_Witness ==
    /\ pc = "reading-line"
    /\ Len(ResponsesWritten) = 2
    /\ ResponsesWritten[1].id = JStr("a")
    /\ ResponsesWritten[2].id = JInt(7)
    /\ flushed = Len(stdout)

\* C2: every line on standard output is the JSON object of a response, one
\* per well-formed request, so the next line a client reads after a request
\* is the response to it.
C2_OnlyResponses ==
    /\ \A i \in 1..Len(stdout) : stdout[i].k = "response"
    /\ pc = "reading-line" => Len(stdout) = Len(RequestsRead)

(***************************************************************************)
(* Properties of the dispatcher and the handlers.                          *)
(***************************************************************************)
IsResponse(x) == DOMAIN x = {"jsonrpc", "id", "result", "error"}

Answered == pc = "answered"
ByDispatcher == Answered /\ via = "stdio"

\* C3: every response of the dispatcher and of the HTTP handlers has
\* exactly one of result and error set, and the line the stdio transport
\* writes for it has exactly one of the keys result and error.
C3_ExactlyOne ==
    Answered =>
        /\ IsResponse(response)
        /\ (response.result = None) # (response.error = None)
        /\ LET data == ResponseData(request, response)
           IN  ("result" \in DOMAIN data) # ("error" \in DOMAIN data)

\* the dispatcher has answered with an error, and a handler with a result
C3_Witness ==
    /\ ByDispatcher
    /\ response.result = None
    /\ response.error # None
    /\ "error" \in DOMAIN ResponseData(request, response)

\* C4: process_request returns a Response for every request and every
\* filesystem state and never raises: whatever its routing raises comes
\* back as an error with code -1 that carries the exception's text.
C4_Total ==
    [][(pc = "ready" /\ via' = "stdio") =>
          /\ IsResponse(response')
          /\ LET body == process_request_body(fs, request')
             IN  body.raised =>
                    /\ response'.result = None
                    /\ response'.error = [code |-> -1, message |-> body.exc]]_vars

\* a tools/call whose arguments value is null has been answered
C4_Witness ==
    /\ ByDispatcher
    /\ request.method = "tools/call"
    /\ request.params # None
    /\ request.params.arguments = None
    /\ IsResponse(response)
    /\ response.error = [code |-> -1, message |-> "'NoneType' object has no attribute 'get'"]

\* C5: a request whose method is not exactly initialize, tools/list or
\* tools/call gets the error -32601 "Method not found: <method>", no
\* result, and no capability is invoked.
C5_MethodNotFound ==
    (ByDispatcher /\ request.method \notin {"initialize", "tools/list", "tools/call"}) =>
        /\ response.error = [code |-> -32601, message |-> "Method not found: " \o request.method]
        /\ response.result = None
        /\ "result" \notin DOMAIN ResponseData(request, response)
        /\ called = "none"

\* a method that differs from tools/list only by case has been refused
C5_Witness ==
    /\ ByDispatcher
    /\ request.method = "Tools/List"
    /\ response.error = [code |-> -32601, message |-> "Method not found: Tools/List"]

\* a tools/call has been answered, by the dispatcher or by POST /mcp/tools/call
ToolsCall ==
    /\ Answered
    /\ \/ via = "stdio" /\ request.method = "tools/call"
       \/ via = "/mcp/tools/call"

HasName == request.params.t = "dict" /\ request.params.name.t # "absent"

NamesRegisteredTool ==
    /\ HasName
    /\ request.params.name.t = "str"
    /\ request.params.name.s \in ToolNames

\* the response carries one text block that encodes an Operation Result, and
\* no error
OperationResultReturned ==
    /\ IsResponse(response)
    /\ response.error = None
    /\ response.result # None
    /\ DOMAIN response.result = {"content"}
    /\ Len(response.result.content) = 1
    /\ response.result.content[1].type = "text"
    /\ DOMAIN response.result.content[1].text.json = {"success", "message", "data"}
    /\ response.result.content[1].text.json.success \in BOOLEAN

\* C6 as stated: every tools/call that names one of the seven registered
\* tools is answered with a result that holds the Operation Result and with
\* no error.
C6_AlwaysResult == (ToolsCall /\ NamesRegisteredTool) => OperationResultReturned

\* C6 as amended: every tools/call that names one of the seven registered
\* tools and whose arguments value is absent or a mapping is answered with a
\* result that holds the Operation Result of the named capability and with
\* no error, whether the operation succeeded or failed.
C6_ResultForMappingArguments ==
    (ToolsCall /\ NamesRegisteredTool /\ request.params.arguments.t \in {"absent", "dict"}) =>
        /\ OperationResultReturned
        /\ called = request.params.name.s

\* an operation that failed has been reported under result
C6_Witness ==
    /\ ToolsCall
    /\ NamesRegisteredTool
    /\ request.params.name.s = "delete_file"
    /\ OperationResultReturned
    /\ response.result.content[1].text.json.success = FALSE

\* C7: a tools/call that names a tool which is not one of the seven
\* registered names gets the error -1 "Unknown tool: <name>", no result, and
\* no capability is invoked.
C7_UnknownTool ==
    (ToolsCall /\ HasName /\ ~NamesRegisteredTool) =>
        /\ response.result = None
        /\ response.error # None
        /\ response.error.code = -1
        /\ request.params.name.t = "str" =>
              response.error.message = "Unknown tool: " \o request.params.name.s
        /\ called = "none"

\* a name that differs from a registered one only by case has been refused
C7_Witness ==
    /\ ToolsCall
    /\ HasName
    /\ request.params.name = JStr("Read_File")
    /\ response.error = [code |-> -1, message |-> "Unknown tool: Read_File"]
    /\ called = "none"

\* C8: a tools/call whose params is absent, empty or without a name key gets
\* the error -1 "Tool name is required", and no capability is invoked.
C8_NameRequired ==
    (ToolsCall /\ ~HasName) =>
        /\ response.result = None
        /\ response.error = [code |-> -1, message |-> "Tool name is required"]
        /\ called = "none"

\* params that hold arguments but no name have been refused
C8_Witness ==
    /\ ToolsCall
    /\ request.params.t = "dict"
    /\ request.params.name.t = "absent"
    /\ request.params.arguments.t = "dict"
    /\ response.error = [code |-> -1, message |-> "Tool name is required"]

\* C9: the response id equals the request id when the request has one; when
\* it has none the response id is 0 for tools/list and tools/call on both
\* transports, and for every response line of the stdio transport.
C9_IdEcho ==
    Answered =>
        /\ request.id # None => response.id = request.id
        /\ (request.id = None /\ via # "/mcp/initialize") => response.id = JInt(0)
        /\ via = "stdio" =>
              ResponseData(request, response).id =
                  (IF request.id = None THEN JInt(0) ELSE request.id)

\* a POST to /mcp/tools/call without an id has been answered with id 0
C9_Witness ==
    /\ Answered
    /\ via = "/mcp/tools/call"
    /\ request.id = None
    /\ response.id = JInt(0)

ToolsList ==
    /\ Answered
    /\ \/ via = "stdio" /\ request.method = "tools/list"
       \/ via = "/mcp/tools/list"

\* C10: every tools/list is answered with the seven descriptors read_file,
\* write_file, append_file, update_file, delete_file, list_files,
\* create_directory in that order, each with its required arguments,
\* whatever the params and whatever was requested before.
C10_SevenTools ==
    ToolsList =>
        /\ response.error = None
        /\ DOMAIN response.result = {"tools"}
        /\ [i \in 1..Len(response.result.tools) |-> response.result.tools[i].name]
              = <<"read_file", "write_file", "append_file", "update_file",
                  "delete_file", "list_files", "create_directory">>
        /\ [i \in 1..Len(response.result.tools) |->
                response.result.tools[i].inputSchema.required]
              = << <<"filepath">>, <<"filepath", "content">>, <<"filepath", "content">>,
                   <<"filepath", "find", "replace">>, <<"filepath">>, <<"dirpath">>,
                   <<"dirpath">> >>

\* tools/list with params has been answered after a file was written
C10_Witness ==
    /\ ToolsList
    /\ via = "stdio"
    /\ request.params # None
    /\ fs["d/f"].k = "file"
    /\ Len(response.result.tools) = 7

(***************************************************************************)
(* Properties of the capabilities.                                         *)
(***************************************************************************)
\* the call made last was of the capability tool
Returns(tool) == pc = "returned" /\ request.tool = tool

\* the node a call of a file capability, or of a directory capability, names
FileKey(c) == PathKey(c.filepath.s)
DirKey(c) == PathKey(c.dirpath.s)

\* the directories above a node
RECURSIVE Ancestors(_)
Ancestors(key) ==
    IF key = "." THEN {} ELSE {Parent(key)} \cup Ancestors(Parent(key))

\* C11: a read_file of P that follows a successful write_file of content C to
\* P, with no call in between, succeeds and returns exactly C as content.
C11_RoundTrip ==
    [][(/\ Returns("write_file")
        /\ response.success
        /\ request'.tool = "read_file"
        /\ IsStr(request'.filepath)
        /\ FileKey(request') = FileKey(request))
       => (/\ response'.success
           /\ response'.data.content = request.content.s)]_vars

\* C12: the size that a successful write_file and a successful read_file
\* report is the number of bytes of the UTF-8 encoding of the content.
C12_SizeIsBytes ==
    /\ (Returns("write_file") /\ response.success) =>
           response.data.size = Utf8Len(request.content.s)
    /\ (Returns("read_file") /\ response.success) =>
           response.data.size = Utf8Len(response.data.content)

\* C13: write_file of a string C to a path P whose parent directory does not
\* exist makes every directory above P, leaves P holding exactly C and every
\* other node as it was, and returns success with the message "File written
\* successfully: " followed by P as given and with data that holds the
\* absolute path and the size (the number of characters of C).
C13_WriteCreatesParents ==
    (/\ Returns("write_file")
     /\ IsStr(request.filepath)
     /\ IsStr(request.content)
     /\ ~Exists(before, Parent(FileKey(request)))) =>
        /\ \A a \in Ancestors(FileKey(request)) : IsDir(fs, a)
        /\ fs[FileKey(request)] = FileNode(request.content.s)
        /\ \A n \in Nodes \ (Ancestors(FileKey(request)) \cup {FileKey(request)}) :
              fs[n] = before[n]
        /\ response =
              [success |-> TRUE,
               message |-> "File written successfully: " \o request.filepath.s,
               data |-> [path |-> Absolute(FileKey(request)),
                         size |-> Len(request.content.s)]]

\* a file two directories deep has been written where neither directory was
C13_Witness ==
    /\ Returns("write_file")
    /\ request.filepath = JStr("./d/e/f")
    /\ ~Exists(before, "d")
    /\ ~Exists(before, "d/e")
    /\ IsDir(fs, "d")
    /\ IsDir(fs, "d/e")
    /\ fs["d/e/f"] = FileNode("a")
    /\ response.message = "File written successfully: ./d/e/f"
    /\ response.data.path = "/cwd/d/e/f"

\* C14: a create_directory that succeeds leaves a directory at its path, and
\* a create_directory on a path that is a directory already (as after a
\* first call) returns the same success and leaves the directory, what it
\* holds and every other node unchanged.
C14_Idempotent ==
    (Returns("create_directory") /\ IsStr(request.dirpath)) =>
        /\ response.success => IsDir(fs, DirKey(request))
        /\ IsDir(before, DirKey(request)) =>
              /\ response =
                    [success |-> TRUE,
                     message |-> "Directory created successfully: " \o request.dirpath.s,
                     data |-> [path |-> Absolute(DirKey(request))]]
              /\ fs = before

\* create_directory has succeeded on a directory that holds a file
C14_Witness ==
    /\ Returns("create_directory")
    /\ request.dirpath = JStr("d/e")
    /\ IsDir(before, "d/e")
    /\ before["d/e/f"].k = "file"
    /\ response.success
    /\ fs = before

DeleteOfMissing ==
    /\ ToolsCall
    /\ NamesRegisteredTool
    /\ request.params.name.s = "delete_file"
    /\ request.params.arguments.t = "dict"
    /\ IsStr(request.params.arguments.filepath)
    /\ ~Exists(before, PathKey(request.params.arguments.filepath.s))

\* C16: delete_file on a path that does not exist returns the Operation
\* Result with success false, the message "Failed to delete file: File not
\* found: <path>" and no data; the response carries it under result with no
\* error, so does the line the stdio transport writes, and the filesystem
\* is unchanged.
C16_DeleteMissing ==
    DeleteOfMissing =>
        /\ OperationResultReturned
        /\ response.result.content[1].text.json =
              [success |-> FALSE,
               message |-> "Failed to delete file: File not found: "
                              \o request.params.arguments.filepath.s,
               data |-> None]
        /\ DOMAIN ResponseData(request, response) = {"jsonrpc", "id", "result"}
        /\ called = "delete_file"
        /\ fs = before

\* the dispatcher has answered a delete_file of a file that was never written
C16_Witness ==
    /\ DeleteOfMissing
    /\ via = "stdio"
    /\ request.params.arguments.filepath = JStr("d/f")
    /\ IsDir(before, "d")
    /\ response.error = None
    /\ response.result.content[1].text.json.success = FALSE
    /\ fs = before

(***************************************************************************)
(* Properties of the stdio loop: lines that are skipped, and the end of    *)
(* the session.                                                            *)
(***************************************************************************)
\* every well-formed request read so far has its response written and flushed
AllAnswered == Len(ResponsesWritten) = Len(RequestsRead) /\ ResponsesFlushed

\* Parse is about to take a line that is blank
BlankLine == pc = "parsing" /\ line = Blank

\* Parse is about to take a line that json.loads or MCPRequest rejects
MalformedLine == pc = "parsing" /\ line # Blank /\ ~WellFormed(line)

\* C17: a blank line puts nothing on standard output, changes nothing but
\* the position of the loop, which goes back to reading; whenever the loop
\* reads, every request read so far, those after a blank line among them,
\* has been answered.
C17_BlankSkipped ==
    /\ [][BlankLine =>
            /\ pc' = "reading-line"
            /\ UNCHANGED <<stdout, flushed, fs, request, response, called>>]_vars
    /\ [](pc = "reading-line" => AllAnswered)

\* a request read after a blank line has been answered
C17_Witness ==
    /\ pc = "reading-line"
    /\ Len(consumed) = 2
    /\ consumed[1] = Blank
    /\ WellFormed(consumed[2])
    /\ Len(ResponsesWritten) = 1
    /\ ResponsesWritten[1].id = JInt(7)
    /\ flushed = Len(stdout)

\* C18: the loop of every finite input stream reaches the closed state; the
\* end of the stream closes it at once and without output, and when it does,
\* every well-formed request read before it has been answered.
C18_Terminates ==
    /\ <>(pc = "closed")
    /\ [][(pc = "reading-line" /\ line' = Eof) =>
             (pc' = "closed" /\ stdout' = stdout)]_vars
    /\ []((pc = "closed" /\ line = Eof) => AllAnswered)

\* the stream has ended after two requests, both answered
C18_Witness ==
    /\ pc = "closed"
    /\ line = Eof
    /\ Len(consumed) = 2
    /\ Len(RequestsRead) = 2
    /\ Len(ResponsesWritten) = 2

\* C19: a line that is not JSON, or that MCPRequest rejects (no method among
\* others), adds no response line to standard output and leaves the
\* filesystem alone, the loop goes back to reading, and whenever the loop
\* reads, every well-formed request read so far has been answered.
C19_MalformedDropped ==
    /\ [][MalformedLine =>
            /\ pc' = "reading-line"
            /\ ResponsesWritten' = ResponsesWritten
            /\ UNCHANGED <<flushed, fs, request, response, called>>]_vars
    /\ [](pc = "reading-line" =>
             /\ AllAnswered
             /\ Len(RequestsRead) = Len(SelectSeq(consumed, WellFormed)))

\* a request read after an object without method has been answered
C19_Witness ==
    /\ pc = "reading-line"
    /\ Len(consumed) = 2
    /\ consumed[1] = Json(Object(JInt(7), Absent, Absent))
    /\ WellFormed(consumed[2])
    /\ Len(ResponsesWritten) = 1
    /\ flushed = Len(stdout)

\* C20: the loop is left only at the end of the input.
C20_OnlyEofCloses == pc = "closed" => line = Eof

(***************************************************************************)
(* The two transports side by side.                                        *)
(***************************************************************************)
\* the endpoint of the web server that stands for a method
EndpointOf(method) == "/mcp/" \o method

\* a POST to the endpoint that matches the method of its body has been answered
MatchingPost ==
    /\ Answered
    /\ request.method \in {"initialize", "tools/list", "tools/call"}
    /\ via = EndpointOf(request.method)

\* C21: a request with method initialize, tools/list or tools/call posted to
\* the endpoint of its method gets the response, with the same id, result
\* and error, and the effect on the filesystem that process_request gives
\* for the same request on the same filesystem.
C21_SameAsStdio ==
    MatchingPost =>
        /\ response = process_request(before, request).val
        /\ fs = process_request(before, request).fs

\* initialize has been answered, by the dispatcher or by POST /mcp/initialize
Initialize ==
    /\ Answered
    /\ \/ via = "stdio" /\ request.method = "initialize"
       \/ via = "/mcp/initialize"

\* C22: every initialize, on both transports, whatever its params and
\* whatever was requested before, is answered with the result protocolVersion
\* "2024-11-05", capabilities {tools: {listChanged: true}}, serverInfo
\* {name: "local-file-crud-mcp", version: "1.0.0"} and no error, invokes no
\* capability and leaves the filesystem alone.
C22_FixedAnnouncement ==
    Initialize =>
        /\ response.result =
              [protocolVersion |-> "2024-11-05",
               capabilities |-> [tools |-> [listChanged |-> TRUE]],
               serverInfo |-> [name |-> "local-file-crud-mcp", version |-> "1.0.0"]]
        /\ response.error = None
        /\ called = "none"
        /\ fs = before

\* initialize without params has been answered after a file was written
C22_Witness ==
    /\ Initialize
    /\ via = "/mcp/initialize"
    /\ request.params = None
    /\ fs["d/f"].k = "file"
    /\ response.result.serverInfo.name = "local-file-crud-mcp"

\* the argument keys the descriptor of a tool requires
Required(name) ==
    (CHOOSE d \in {StdioTools[i] : i \in 1..Len(StdioTools)} : d.name = name)
        .inputSchema.required

\* a tools/call names a registered tool and leaves out an argument its
\* descriptor requires, in an arguments mapping or by sending none
MissingArgument ==
    /\ ToolsCall
    /\ NamesRegisteredTool
    /\ request.params.arguments.t \in {"absent", "dict"}
    /\ \/ request.params.arguments.t = "absent"
       \/ \E i \in 1..Len(Required(request.params.name.s)) :
             request.params.arguments[Required(request.params.name.s)[i]].t = "absent"

\* C23: a tools/call for a registered tool that leaves out a required
\* argument, or sends no arguments mapping, still invokes the capability,
\* and is answered with a result whose Operation Result has success false,
\* not with an error.
C23_NotValidated ==
    MissingArgument =>
        /\ called = request.params.name.s
        /\ OperationResultReturned
        /\ response.result.content[1].text.json.success = FALSE
        /\ response.result.content[1].text.json.data = None

\* write_file without content has been invoked and has failed
C23_Witness ==
    /\ MissingArgument
    /\ request.params.name.s = "write_file"
    /\ request.params.arguments.t = "dict"
    /\ request.params.arguments.filepath = JStr("d/f")
    /\ called = "write_file"
    /\ response.error = None
    /\ response.result.content[1].text.json.success = FALSE

\* C30: the response of an HTTP endpoint does not depend on the method of
\* the body: POST /mcp/initialize answers with the announcement and POST
\* /mcp/tools/list with the tool list for every method, POST /mcp/tools/call
\* answers as it does for the method tools/call, and no endpoint answers
\* with the error -32601.
C30_PathAlone ==
    (Answered /\ via \in Endpoints) =>
        /\ response.error # None => response.error.code # -32601
        /\ via = "/mcp/initialize" =>
              response = MCPResponse(request.id, Announcement, None)
        /\ via = "/mcp/tools/list" =>
              response = MCPResponse(IdOrZero(request.id), [tools |-> StdioTools], None)
        /\ via = "/mcp/tools/call" =>
              response = call_tool(before, [request EXCEPT !.method = "tools/call"]).val

\* a body with the method ping has got the tool list from /mcp/tools/list
C30_Witness ==
    /\ Answered
    /\ via = "/mcp/tools/list"
    /\ request.method = "ping"
    /\ response.error = None
    /\ Len(response.result.tools) = 7

(***************************************************************************)
(* Failures of a capability                                                *)
(***************************************************************************)
\* the path argument of the call made last
PathArg(c) == IF c.tool \in {"list_files", "create_directory"} THEN c.dirpath ELSE c.filepath

\* an argument the capability uses was given as null
AbsentArgument(c) ==
    \/ PathArg(c) = None
    \/ c.tool \in {"write_file", "append_file"} /\ c.content = None
    \/ c.tool = "update_file" /\ (c.find = None \/ c.replace = None)

\* the call names a path the filesystem did not hold, and the capability needs it to
PathNotFound(c) ==
    /\ c.tool \in {"read_file", "update_file", "delete_file", "list_files"}
    /\ IsStr(PathArg(c))
    /\ ~Exists(before, PathKey(PathArg(c).s))

\* list_files on a file, or a file capability on a directory
WrongKind(c) ==
    /\ IsStr(PathArg(c))
    /\ \/ c.tool = "list_files" /\ before[PathKey(PathArg(c).s)].k = "file"
       \/ /\ c.tool \in {"read_file", "write_file", "append_file", "update_file", "delete_file"}
          /\ IsDir(before, PathKey(PathArg(c).s))

\* C24: a capability called directly never raises: it always returns an operation
\* result, and a failure (a path not found, a path of the wrong kind, an absent
\* argument) is a result with success false, a non-empty message and data null.
C24_NeverRaises ==
    pc = "returned" =>
        /\ DOMAIN response = {"success", "message", "data"}
        /\ response.success \in BOOLEAN
        /\ (AbsentArgument(request) \/ PathNotFound(request) \/ WrongKind(request)) =>
               ~response.success
        /\ ~response.success => (response.message # "" /\ response.data = None)

\* read_file on a path that does not exist has returned a failure
C24_Witness ==
    /\ Returns("read_file")
    /\ request.filepath = JStr("d/e/f")
    /\ ~Exists(before, "d/e/f")
    /\ ~response.success
    /\ response.message = "Failed to read file: File not found: d/e/f"
    /\ response.data = None

(***************************************************************************)
(* Sequences of capability calls                                           *)
(***************************************************************************)
\* the call made last succeeded with tool, and the next call reads the same path
ThenRead(tool) ==
    /\ Returns(tool)
    /\ response.success
    /\ request'.tool = "read_file"
    /\ IsStr(request'.filepath)
    /\ FileKey(request') = FileKey(request)

\* append_file was called with strings on a file, or on a path that does not
\* exist and whose ancestors are not files
Appendable ==
    /\ Returns("append_file")
    /\ IsStr(request.filepath)
    /\ IsStr(request.content)
    /\ FileKey(request) # "."
    /\ \/ before[FileKey(request)].k = "file"
       \/ /\ ~Exists(before, FileKey(request))
          /\ \A a \in Ancestors(FileKey(request)) : before[a].k # "file"

\* the append of C26 as an effect on the filesystem and a result
C26_AppendEffect ==
    Appendable =>
        /\ response.success
        /\ fs[FileKey(request)] = FileNode(before[FileKey(request)].c \o request.content.s)
        /\ \A a \in Ancestors(FileKey(request)) : IsDir(fs, a)
        /\ response.data.appended_size = Len(request.content.s)

\* C26: append_file(P, D) appends without truncating: the file then holds what
\* it held followed by D (D alone, with the missing parent directories made,
\* when P did not exist), data.appended_size is the length of D, and a
\* read_file(P) that follows returns what the file held followed by D.
C26_Appends ==
    /\ [](C26_AppendEffect)
    /\ [][ThenRead("append_file") =>
              /\ response'.success
              /\ response'.data.content = before[FileKey(request)].c \o request.content.s]_vars

\* the text of a file as a read in text mode gives it
TextOf(f, key) == UniversalNewlines(f[key].c)

\* C27: update_file(P, find, replace) on an existing file succeeds, leaves the
\* file holding its text with every non-overlapping occurrence of find replaced
\* by replace, and reports as data.replacements the number of occurrences of
\* find in the original text; the "not found" message with 0 replacements is
\* returned only when find does not occur.
C27_ReplacesAll ==
    (/\ Returns("update_file")
     /\ IsStr(request.filepath)
     /\ IsStr(request.find)
     /\ IsStr(request.replace)
     /\ before[FileKey(request)].k = "file") =>
        /\ response.success
        /\ TextOf(fs, FileKey(request)) =
               PyReplace(TextOf(before, FileKey(request)), request.find.s, request.replace.s)
        /\ response.data.replacements = PyCount(TextOf(before, FileKey(request)), request.find.s)
        /\ (response.message = "No changes made: '" \o request.find.s \o "' not found in "
                                   \o request.filepath.s) =>
               PyCount(TextOf(before, FileKey(request)), request.find.s) = 0

\* the last component of a path
NameOf(key) == Parts(key)[Len(Parts(key))]

\* delete_file has succeeded and another capability is called next
ThenCalled(tool) ==
    /\ Returns("delete_file")
    /\ response.success
    /\ request'.tool = tool

Overwrites ==
    /\ Returns("write_file")
    /\ IsStr(request.filepath)
    /\ IsStr(request.content)
    /\ before[FileKey(request)].k = "file"

\* C29: write_file(P, C2) on a file that holds C1 succeeds and leaves the file
\* holding exactly C2, whatever C1 was; a read_file(P) that follows returns C2;
\* and a second write_file of the same content to the same path leaves the
\* filesystem as the first left it.
C29_Overwrites ==
    /\ [](Overwrites =>
              /\ response.success
              /\ fs = [before EXCEPT ![FileKey(request)] = FileNode(request.content.s)])
    /\ [][(Overwrites /\ ThenRead("write_file")) =>
              /\ response'.success
              /\ response'.data.content = request.content.s]_vars
    /\ [][(Overwrites /\ response.success /\ request' = request) => fs' = fs]_vars

(***************************************************************************)
(* Effects of failing and of non-mutating calls                            *)
(***************************************************************************)
\* C31: a capability that has returned success false has left the filesystem
\* exactly as the call found it.
C31_FailureNoEffect ==
    (pc = "returned" /\ ~response.success) => fs = before

\* the method a request is handled as: its own on stdio, its endpoint's over HTTP
RoutedMethod ==
    IF via = "stdio" THEN request.method
    ELSE IF via = "/mcp/initialize" THEN "initialize"
    ELSE IF via = "/mcp/tools/list" THEN "tools/list"
    ELSE "tools/call"

\* the request is not a call of a mutating tool
NonMutating ==
    \/ RoutedMethod # "tools/call"
    \/ ~NamesRegisteredTool
    \/ request.params.name.s \in {"read_file", "list_files"}

\* C32: a request that is handled as initialize, tools/list or an unregistered
\* method, a tools/call with no name or with an unknown tool, and a tools/call
\* of read_file or list_files leave every file and directory as they were.
C32_Frame ==
    (Answered /\ NonMutating) => fs = before

\* read_file of an existing file has been answered and the file is still there
C32_Witness ==
    /\ ByDispatcher
    /\ request.method = "tools/call"
    /\ NamesRegisteredTool
    /\ request.params.name.s = "read_file"
    /\ called = "read_file"
    /\ response.error = None
    /\ \E n \in Nodes : before[n].k = "file"
    /\ fs = before

(***************************************************************************)
(* Lines of a stdio session that are answered                              *)
(***************************************************************************)
\* the line decodes to a JSON object with a string method
HasStringMethod(l) ==
    /\ l.k = "text"
    /\ l.decodes
    /\ l.value.t = "dict"
    /\ l.value.method.t = "str"

\* the line decodes to a JSON object with a string method whose id is a
\* string, an integer, null or absent, whose params is an object, null or
\* absent and whose jsonrpc is a string or absent
HasDeclaredTypes(l) ==
    /\ HasStringMethod(l)
    /\ l.value.id.t \in {"absent", "None", "str", "int"}
    /\ l.value.params.t \in {"absent", "None", "dict"}
    /\ l.value.jsonrpc.t \in {"absent", "str"}

TaskIds == {1, 2}

\* the file both requests name, and what it holds when they arrive
SharedFile == JStr("d/f")
SharedTexts == {"ab", "b"}

\* the calls the two requests make
TaskCalls ==
    {Call("update_file", SharedFile, Absent, JStr(x[1]), JStr(x[2]), Absent) :
         x \in {<<"a", "x">>, <<"b", "y">>, <<"x", "a">>}}
    \cup {Call("write_file", SharedFile, JStr(c), Absent, Absent, Absent) : c \in {"", "zzz"}}
    \cup {Call("append_file", SharedFile, JStr(c), Absent, Absent, Absent) : c \in {"a", "b"}}

\* a coroutine of call_tool that has not run yet
Task(c) == [call |-> c, at |-> "called", original_content |-> "", result |-> None]

InitHttp ==
    /\ \E text \in SharedTexts :
          fs = [EmptyDir EXCEPT !["d"] = DirNode, !["d/f"] = FileNode(text)]
    /\ before = fs
    /\ tasks \in [TaskIds -> {Task(c) : c \in TaskCalls}]
    /\ pc = "serving"
    /\ line = Eof
    /\ consumed = <<>>
    /\ request = None
    /\ response = None
    /\ called = "none"
    /\ stdout = <<>>
    /\ flushed = 0
    /\ via = "/mcp/tools/call"

\* the prefix the except clause of a capability puts before the exception
FailedTo(tool) ==
    IF tool = "write_file" THEN "Failed to write file: "
    ELSE IF tool = "append_file" THEN "Failed to append to file: "
    ELSE "Failed to update file: "

\* task t goes on to its next await, leaving the filesystem f
Awaits(t, at, f) ==
    /\ tasks' = [tasks EXCEPT ![t].at = at]
    /\ fs' = f

\* task t returns the Operation Result of r, or the failure its except
\* clause makes of what r raised
Returns_task(t, r) ==
    /\ tasks' = [tasks EXCEPT ![t].at = "done",
                              ![t].result = Caught(r, FailedTo(tasks[t].call.tool)).val]
    /\ fs' = r.fs

\* the capability up to the return of its first aiofiles.open: exists() and
\* mode 'r' for update_file, mkdir of the parent and mode 'w' or 'a' for
\* write_file and append_file
FirstOpen(f, c) ==
    LET p == PathOf(c.filepath, f) IN
    IF p.raised THEN p
    ELSE IF c.tool = "update_file"
    THEN IF ~Exists(f, p.val) THEN Raise("File not found: " \o c.filepath.s, f)
         ELSE Open(f, p.val, "r")
    ELSE LET m == Mkdir(f, Parent(p.val)) IN
         IF m.raised THEN m
         ELSE Open(m.fs, p.val, IF c.tool = "write_file" THEN "w" ELSE "a")

Opens(t) ==
    /\ tasks[t].at = "called"
    /\ IF FirstOpen(fs, tasks[t].call).raised
       THEN Returns_task(t, FirstOpen(fs, tasks[t].call))
       ELSE Awaits(t, "opened", FirstOpen(fs, tasks[t].call).fs)

\* update_file from f.read() to the comparison of the replaced text with the
\* text read
AfterRead(f, c, original_content) ==
    IF ~IsStr(c.find)
    THEN Raise("replace() argument 1 must be str, not " \o TypeName(c.find), f)
    ELSE IF ~IsStr(c.replace)
    THEN Raise("replace() argument 2 must be str, not " \o TypeName(c.replace), f)
    ELSE IF PyReplace(original_content, c.find.s, c.replace.s) = original_content
    THEN Return([success |-> TRUE,
                 message |-> "No changes made: '" \o c.find.s \o "' not found in "
                                 \o c.filepath.s,
                 data |-> [replacements |-> 0]], f)
    ELSE Return(None, f)

Reads(t) ==
    /\ tasks[t].at = "opened"
    /\ tasks[t].call.tool = "update_file"
    /\ IF AfterRead(fs, tasks[t].call, UniversalNewlines(fs["d/f"].c)).val = None
       THEN /\ tasks' = [tasks EXCEPT ![t].at = "read",
                                      ![t].original_content = UniversalNewlines(fs["d/f"].c)]
            /\ fs' = fs
       ELSE Returns_task(t, AfterRead(fs, tasks[t].call, UniversalNewlines(fs["d/f"].c)))

\* the second aiofiles.open of update_file, with mode 'w'
Reopens(t) ==
    /\ tasks[t].at = "read"
    /\ IF Open(fs, "d/f", "w").raised
       THEN Returns_task(t, Open(fs, "d/f", "w"))
       ELSE Awaits(t, "reopened", Open(fs, "d/f", "w").fs)

\* the text a task writes: the content given, or the text read with find replaced
Written(task) ==
    IF task.call.tool = "update_file"
    THEN JStr(PyReplace(task.original_content, task.call.find.s, task.call.replace.s))
    ELSE task.call.content

\* the file after a handle is closed that was opened with mode 'a' (the text
\* goes to the end of the file) or with mode 'w' (the text goes where the
\* handle stands, at the start of the file, over what is there)
Flushed(held, mode, text) ==
    IF mode = "a" THEN held \o text
    ELSE IF Len(text) >= Len(held) THEN text
    ELSE text \o SubSeq(held, Len(text) + 1, Len(held))

\* f.write(content) and the close of the handle, then the result
WriteAndClose(f, task) ==
    IF ~IsStr(Written(task))
    THEN Raise("write() argument must be str, not " \o TypeName(Written(task)), f)
    ELSE Return(
        IF task.call.tool = "write_file"
        THEN [success |-> TRUE,
              message |-> "File written successfully: " \o task.call.filepath.s,
              data |-> [path |-> Absolute("d/f"), size |-> Len(Written(task).s)]]
        ELSE IF task.call.tool = "append_file"
        THEN [success |-> TRUE,
              message |-> "Content appended successfully: " \o task.call.filepath.s,
              data |-> [path |-> Absolute("d/f"), appended_size |-> Len(Written(task).s)]]
        ELSE [success |-> TRUE,
              message |-> "File updated successfully: " \o task.call.filepath.s,
              data |-> [path |-> Absolute("d/f"),
                        replacements |-> PyCount(task.original_content, task.call.find.s)]],
        [f EXCEPT !["d/f"] =
             FileNode(Flushed(@.c, IF task.call.tool = "append_file" THEN "a" ELSE "w",
                              Written(task).s))])

Writes(t) ==
    /\ \/ tasks[t].at = "opened" /\ tasks[t].call.tool \in {"write_file", "append_file"}
       \/ tasks[t].at = "reopened"
    /\ Returns_task(t, WriteAndClose(fs, tasks[t]))

\* the event loop resumes one task; nothing but the task and the filesystem changes
Resumes ==
    /\ pc = "serving"
    /\ UNCHANGED <<pc, line, consumed, request, response, called, stdout, flushed, via, before>>

Opening == Resumes /\ \E t \in TaskIds : Opens(t)
Reading == Resumes /\ \E t \in TaskIds : Reads(t)
Reopening == Resumes /\ \E t \in TaskIds : Reopens(t)
Writing == Resumes /\ \E t \in TaskIds : Writes(t)

NextHttp == Opening \/ Reading \/ Reopening \/ Writing

SpecHttp == InitHttp /\ [][NextHttp]_vars

\* the capability of call c run alone on the filesystem f
Alone(f, c) ==
    IF c.tool = "write_file" THEN write_file(f, c.filepath, c.content)
    ELSE IF c.tool = "append_file" THEN append_file(f, c.filepath, c.content)
    ELSE update_file(f, c.filepath, c.find, c.replace)

\* the filesystem and the two results are those of the call of task first
\* followed by the call of task second
AsIfInOrder(first, second) ==
    /\ tasks[first].result = Alone(before, tasks[first].call).val
    /\ tasks[second].result =
           Alone(Alone(before, tasks[first].call).fs, tasks[second].call).val
    /\ fs = Alone(Alone(before, tasks[first].call).fs, tasks[second].call).fs

BothDone == pc = "serving" /\ \A t \in TaskIds : tasks[t].at = "done"

\* C33: when two tools/call requests on the same file (update_file, write_file,
\* append_file in any combination) have interleaved at their await points and
\* both have returned, the file and the two Operation Results are those of
\* the two calls made one after the other, in one of the two orders.
C33_Serializable ==
    BothDone => (AsIfInOrder(1, 2) \/ AsIfInOrder(2, 1))

====
